---- MODULE Spec2Model ----
(***************************************************************************)
(* A model of mxclient.Room (room.go): the cached, newest-first timeline   *)
(* of one Matrix room, its two pagination tokens, and the page retrieval   *)
(* GetEventPage with its backward and forward range helpers.               *)
(*                                                                         *)
(* Events are records [ID, Type].  The homeserver's history of the room is *)
(* the sequence of events with IDs 1, 2, 3, ... in chronological order; a  *)
(* pagination token is the ID of the first event at or after the position  *)
(* it names, so a backward fetch from token t returns events t-1, t-2, ... *)
(* and a forward delivery from token t carries events t, t+1, ...          *)
(***************************************************************************)
EXTENDS Integers, Sequences, FiniteSets, TLC

\* ------------------------------------------------------------------ bounds
\* ID of the newest event on the server when the room is attached.
HistInit == 45
\* Largest initial chunk the server hands to NewRoom.
MaxChunk == 3
\* Number of events that arrive live after the room is attached.
MaxNew == 3
\* Page-request inputs: offsets -MaxOffset..MaxOffset, sizes -1..MaxPageSize.
MaxOffset == 2
MaxPageSize == 2
\* Anchors are drawn among the first MaxAnchor cached events.
MaxAnchor == 2
\* A young room's history starts YoungDepth events before the largest
\* initial chunk; an old room's history starts at event 1.
YoungDepth == 2
\* Goroutines that call GetEventPage at the same time, once each.
NumCallers == 2
\* Every RedactionPeriod-th event of the history is a redaction.
RedactionPeriod == 7

\* ------------------------------------------------------- program constants
overcompensateBackpaginationBy == 32
RoomInitialSyncLimit == 256
\* The amount findEventIndex asks backpaginateRoom for.
findEventIndexBackpaginateBy == 100

Redaction == "m.room.redaction"
Message == "m.room.message"
\* The empty anchor string "".
NoAnchor == 0

VARIABLES
    eventList,               \* r.eventList
    backPaginationToken,     \* r.backPaginationToken
    forwardPaginationToken,  \* r.forwardPaginationToken
    latestRoomState,         \* r.latestRoomState: the UpdateOnEvent calls made on it
    initialSync,             \* what RoomInitialSync answered: Start, End, order
    oldestID,                \* ID of the first event of the room's history
    latestBackCursor,        \* cursor the server returned last (older edge)
    latestForwardCursor,     \* cursor the sync loop supplied last (newer edge)
    call,                    \* the operation performed last and its outcome
    pc,                      \* where each concurrent caller is in GetEventPage
    local                    \* each concurrent caller's arguments and locals

vars == <<eventList, backPaginationToken, forwardPaginationToken, latestRoomState,
          initialSync, oldestID, latestBackCursor, latestForwardCursor, call, pc, local>>

\* ------------------------------------------------------------------ utils
Min(a, b) == IF a < b THEN a ELSE b
Max(a, b) == IF a > b THEN a ELSE b
Bound(low, x, high) == Max(low, Min(x, high))

\* ------------------------------------------------------ the server's history
IsRedactionID(id) ==
    \/ id % RedactionPeriod = 0
    \/ id \in {HistInit - 2, HistInit - 1, HistInit + 2}

EventAt(id) == [ID |-> id, Type |-> IF IsRedactionID(id) THEN Redaction ELSE Message]

\* Events lo..hi in chronological order, and newest first.
Chronological(lo, hi) == [i \in 1..(hi - lo + 1) |-> EventAt(lo + i - 1)]
NewestFirst(lo, hi) == [i \in 1..(hi - lo + 1) |-> EventAt(hi - i + 1)]

\* What the server sends for a backward fetch of `amount` events from token
\* `from`: the chunk, newest first, and the token of its older end.  Fewer
\* than `amount` events mean the start of the room's history.
Messages(from, amount) ==
    LET n == Max(0, Min(amount, from - oldestID))
    IN  [Chunk |-> NewestFirst(from - n, from - 1), End |-> from - n]

\* How a backward fetch can go: the round trip fails, or the server answers.
Replies == {"error", "ok"}

\* ------------------------------------------------------------------ Room
Room == [eventList |-> eventList,
         backPaginationToken |-> backPaginationToken,
         forwardPaginationToken |-> forwardPaginationToken,
         latestRoomState |-> latestRoomState]

\* The room-state reducer, seen through the calls made on it: a RoomState is
\* the sequence of UpdateOnEvent(event, isInitial) calls it has received.
NewRoomState == <<>>
UpdateOnEvent(state, event, isInitial) ==
    Append(state, [ID |-> event.ID, isInitial |-> isInitial])

\* A variant that puts the fetched events in front of the cached ones.
concatBackpaginationLoop_Prepends(list, oldEvents) ==
    SelectSeq(oldEvents, LAMBDA event : event.Type # Redaction) \o list

RECURSIVE concatBackpaginationLoop(_, _)
concatBackpaginationLoop(list, oldEvents) ==
    IF oldEvents = <<>> THEN list
    ELSE LET event == Head(oldEvents)
         IN  IF event.Type = Redaction
             THEN concatBackpaginationLoop(list, Tail(oldEvents))
             ELSE concatBackpaginationLoop(Append(list, event), Tail(oldEvents))

\* A variant that appends the events and keeps the old cursor.
concatBackpagination_KeepsToken(r, oldEvents, newToken) ==
    [r EXCEPT !.eventList = concatBackpaginationLoop(r.eventList, oldEvents)]

concatBackpagination(r, oldEvents, newToken) ==
    [r EXCEPT !.eventList = concatBackpaginationLoop(r.eventList, oldEvents),
              !.backPaginationToken = newToken]

\* A variant that puts the live events behind the cached ones.
concatForwardPaginationLoop_Appends(list, newEvents) ==
    list \o SelectSeq(newEvents, LAMBDA event : event.Type # Redaction)

\* A variant that puts the batch in front in arrival order.
concatForwardPaginationLoop_KeepsArrivalOrder(list, newEvents) ==
    SelectSeq(newEvents, LAMBDA event : event.Type # Redaction) \o list

RECURSIVE concatForwardPaginationLoop(_, _)
concatForwardPaginationLoop(list, newEvents) ==
    IF newEvents = <<>> THEN list
    ELSE LET event == Head(newEvents)
         IN  IF event.Type = Redaction
             THEN concatForwardPaginationLoop(list, Tail(newEvents))
             ELSE concatForwardPaginationLoop(<<event>> \o list, Tail(newEvents))

\* A variant that folds the redactions of the batch into the room state too.
RECURSIVE concatForwardPaginationUpdates_FoldsRedactions(_, _)
concatForwardPaginationUpdates_FoldsRedactions(state, newEvents) ==
    IF newEvents = <<>> THEN state
    ELSE concatForwardPaginationUpdates_FoldsRedactions(
             UpdateOnEvent(state, Head(newEvents), FALSE), Tail(newEvents))

\* A variant that keeps the cache at its length by dropping the oldest events.
concatForwardPagination_DropsOldest(r, newEvents, newToken) ==
    [r EXCEPT !.eventList = SubSeq(concatForwardPaginationLoop(r.eventList, newEvents),
                                   1, Len(r.eventList)),
              !.forwardPaginationToken = newToken]

\* The UpdateOnEvent calls of the same loop (line 74).
RECURSIVE concatForwardPaginationUpdates(_, _)
concatForwardPaginationUpdates(state, newEvents) ==
    IF newEvents = <<>> THEN state
    ELSE LET event == Head(newEvents)
         IN  IF event.Type = Redaction
             THEN concatForwardPaginationUpdates(state, Tail(newEvents))
             ELSE concatForwardPaginationUpdates(UpdateOnEvent(state, event, FALSE),
                                                 Tail(newEvents))

concatForwardPagination(r, newEvents, newToken) ==
    [r EXCEPT !.eventList = concatForwardPaginationLoop(r.eventList, newEvents),
              !.latestRoomState = concatForwardPaginationUpdates(r.latestRoomState, newEvents),
              !.forwardPaginationToken = newToken]

GetTokens(r) == <<r.backPaginationToken, r.forwardPaginationToken>>

\* client.backpaginateRoom(r, amount): fetch from the older-edge cursor; on
\* success hand the chunk and the returned cursor to concatBackpagination and
\* report the number of events appended; on failure leave the room alone.
\* `cursors` records the cursor the server returned, if it answered.
backpaginateRoom(r, amount, reply) ==
    IF reply = "error"
    THEN [room |-> r, numNew |-> 0, err |-> TRUE, cursors |-> <<>>]
    ELSE LET resp == Messages(GetTokens(r)[1], amount)
             r2 == concatBackpagination(r, resp.Chunk, resp.End)
         IN  [room |-> r2,
              numNew |-> Len(r2.eventList) - Len(r.eventList),
              err |-> FALSE, cursors |-> <<resp.End>>]

\* The loop of findEventIndex: the index of the first event whose ID is
\* `anchor`, or -1 when the loop ends without a match.
RECURSIVE scanEventList(_, _, _)
scanEventList(list, anchor, index) ==
    IF index >= Len(list) THEN -1
    ELSE IF list[index + 1].ID = anchor THEN index
    ELSE scanEventList(list, anchor, index + 1)

\* A variant that answers index 0 for an anchor the scan did not find.
findEventIndex_FallsBack(r, anchor, backpaginate, reply) ==
    [index |-> Max(scanEventList(r.eventList, anchor, 0), 0), found |-> TRUE,
     room |-> r, fetched |-> <<>>, cursors |-> <<>>, scans |-> 1]

\* The flag findEventIndex passes to its retry after the extension, and a
\* variant whose retry may extend again.
retryBackpaginate_Again == TRUE
retryBackpaginate == FALSE

\* `scans` counts the passes over r.eventList the resolution made and
\* `fetched` lists the amounts it asked backpaginateRoom for.
RECURSIVE findEventIndex(_, _, _, _)
findEventIndex(r, anchor, backpaginate, reply) ==
    LET index == scanEventList(r.eventList, anchor, 0)
    IN  IF index >= 0
        THEN [index |-> index, found |-> TRUE, room |-> r, fetched |-> <<>>,
              cursors |-> <<>>, scans |-> 1]
        ELSE IF backpaginate
             THEN LET bp == backpaginateRoom(r, findEventIndexBackpaginateBy, reply)
                      again == findEventIndex(bp.room, anchor, retryBackpaginate, reply)
                  IN  IF bp.numNew > 0
                      THEN [again EXCEPT
                                !.fetched = <<findEventIndexBackpaginateBy>> \o again.fetched,
                                !.cursors = bp.cursors \o again.cursors,
                                !.scans = 1 + again.scans]
                      ELSE [index |-> 0, found |-> FALSE, room |-> bp.room,
                            fetched |-> <<findEventIndexBackpaginateBy>>,
                            cursors |-> bp.cursors, scans |-> 1]
             ELSE [index |-> 0, found |-> FALSE, room |-> r, fetched |-> <<>>,
                   cursors |-> <<>>, scans |-> 1]

\* r.eventList[low:high]: the slice, or a runtime panic when out of range.
SliceInRange(list, low, high) == 0 <= low /\ low <= high /\ high <= Len(list)
Slice(list, low, high) ==
    IF SliceInRange(list, low, high)
    THEN [events |-> SubSeq(list, low + 1, high), panicked |-> FALSE]
    ELSE [events |-> <<>>, panicked |-> TRUE]

backwardDelta(anchorIndex, offset, number) ==
    anchorIndex + offset + number + overcompensateBackpaginationBy
backwardNeedsFetch(delta, length) == delta >= length
\* A variant that never adds the new events to the length.
backwardLength_Stale(length, numNew, err) == length
backwardLength(length, numNew, err) == IF ~err THEN length + numNew ELSE length
\* A variant that does not clamp the start to the length.
backwardStart_Unclamped(anchorIndex, offset, length) == anchorIndex + offset
backwardStart(anchorIndex, offset, length) == Min(anchorIndex + offset, length)
\* A variant that ends the page one event too late.
backwardEnd_OneMore(startIndex, number, length) == Min(startIndex + number + 1, length)
backwardEnd(startIndex, number, length) == Min(startIndex + number, length)

getBackwardEventRange(r, anchorIndex, offset, number, reply) ==
    LET length0 == Len(r.eventList)
        delta == backwardDelta(anchorIndex, offset, number)
        fetch == backwardNeedsFetch(delta, length0)
        bp == IF fetch
              THEN backpaginateRoom(r, delta - length0, reply)
              ELSE [room |-> r, numNew |-> 0, err |-> FALSE, cursors |-> <<>>]
        length == IF fetch THEN backwardLength(length0, bp.numNew, bp.err) ELSE length0
        startIndex == backwardStart(anchorIndex, offset, length)
        endIndex == backwardEnd(startIndex, number, length)
        s == Slice(bp.room.eventList, startIndex, endIndex)
    IN  [events |-> s.events, panicked |-> s.panicked, room |-> bp.room,
         fetched |-> IF fetch THEN <<delta - length0>> ELSE <<>>,
         fetchErr |-> fetch /\ bp.err, numNew |-> bp.numNew, cursors |-> bp.cursors]

\* A variant that moves the top of the page the wrong way.
forwardTop_AddsOffset(index, offset, number, length) ==
    Bound(0, index + number + offset, length)
forwardTop(index, offset, number, length) == Bound(0, index + number - offset, length)
forwardBottom(topIndex, number) == Max(topIndex - number, 0)

getForwardEventRange(r, index, offset, number) ==
    LET length == Len(r.eventList)
        topIndex == forwardTop(index, offset, number, length)
        s == Slice(r.eventList, forwardBottom(topIndex, number), topIndex)
    IN  [events |-> s.events, panicked |-> s.panicked, room |-> r,
         fetched |-> <<>>, fetchErr |-> FALSE, numNew |-> 0, cursors |-> <<>>]

\* The flag GetEventPage passes to findEventIndex, and a variant that asks
\* for the backward extension.
anchorBackpaginate_Extends == TRUE
anchorBackpaginate == FALSE

\* reply1 is how the fetch of findEventIndex goes and reply2 how the fetch of
\* getBackwardEventRange goes, when the call makes them.
GetEventPage(r, anchor, offset, pageSize, reply1, reply2) ==
    LET f == IF anchor # NoAnchor
             THEN findEventIndex(r, anchor, anchorBackpaginate, reply1)
             ELSE [index |-> 0, found |-> TRUE, room |-> r, fetched |-> <<>>,
                   cursors |-> <<>>, scans |-> 0]
        anchorIndex == f.index
        g == IF offset >= 0
             THEN getBackwardEventRange(f.room, anchorIndex, offset, pageSize, reply2)
             ELSE getForwardEventRange(f.room, anchorIndex, -offset, pageSize)
    IN  IF ~f.found
        THEN [events |-> <<>>, err |-> TRUE, panicked |-> FALSE, room |-> f.room,
              anchorIndex |-> 0, fetched |-> f.fetched, fetchErr |-> FALSE,
              numNew |-> 0, cursors |-> f.cursors]
        ELSE [events |-> g.events, err |-> FALSE, panicked |-> g.panicked,
              room |-> g.room, anchorIndex |-> anchorIndex,
              fetched |-> f.fetched \o g.fetched, fetchErr |-> g.fetchErr,
              numNew |-> g.numNew, cursors |-> f.cursors \o g.cursors]

\* A variant of NewRoom's loop that keeps the order of the chunk.
filterInitialChunk_KeepsOrder(chunk, filteredEventList) ==
    filteredEventList \o SelectSeq(chunk, LAMBDA event : event.Type = Redaction)

\* NewRoom's loop over resp.Messages.Chunk.
RECURSIVE filterInitialChunk(_, _)
filterInitialChunk(chunk, filteredEventList) ==
    IF chunk = <<>> THEN filteredEventList
    ELSE LET event == Head(chunk)
         IN  IF event.Type # Redaction
             THEN filterInitialChunk(Tail(chunk), filteredEventList)
             ELSE filterInitialChunk(Tail(chunk), <<event>> \o filteredEventList)

\* NewRoom's loop over resp.State.
RECURSIVE applyInitialState(_, _)
applyInitialState(state, stateEvents) ==
    IF stateEvents = <<>> THEN state
    ELSE applyInitialState(UpdateOnEvent(state, Head(stateEvents), TRUE), Tail(stateEvents))

NewRoom(resp) ==
    [eventList |-> filterInitialChunk(resp.Chunk, <<>>),
     forwardPaginationToken |-> resp.End,
     backPaginationToken |-> resp.Start,
     latestRoomState |-> applyInitialState(NewRoomState, resp.State)]

\* The current-state events RoomInitialSync answers with; they are not part
\* of the message history.
StateEvents == <<[ID |-> -1, Type |-> "m.room.create"], [ID |-> -2, Type |-> "m.room.name"]>>

\* What RoomInitialSync can answer: the newest n events, in either order,
\* with the cursors of the two ends of the chunk.
RoomInitialSync(n, order) ==
    LET lo == HistInit - n + 1
    IN  [Chunk |-> IF order = "chronological" THEN Chronological(lo, HistInit)
                   ELSE NewestFirst(lo, HistInit),
         Start |-> lo, End |-> HistInit + 1, State |-> StateEvents]

\* ----------------------------------------------------------------- state
NoCall == [op |-> "none", anchor |-> NoAnchor, offset |-> 0, pageSize |-> 0,
           events |-> <<>>, err |-> FALSE, panicked |-> FALSE, anchorIndex |-> 0,
           preFound |-> FALSE, preLen |-> 0, fetched |-> <<>>, fetchErr |-> FALSE,
           numNew |-> 0, repeat |-> FALSE, found |-> FALSE, scans |-> 0,
           backpaginate |-> FALSE, batch |-> <<>>, prepended |-> 0, prior |-> <<>>]

\* The callers of the concurrent specification, and a caller's locals before
\* its call.
Procs == 1..NumCallers
NoLocal == [anchor |-> NoAnchor, offset |-> 0, pageSize |-> 0, anchorIndex |-> 0,
            length |-> 0, amount |-> 0, from |-> 0, disturbed |-> FALSE,
            events |-> <<>>, err |-> FALSE, panicked |-> FALSE, torn |-> FALSE]

\* The room is young (its history starts shortly before the initial chunk) or
\* old (its history starts at event 1).
OldestIDs == {1, HistInit - MaxChunk - YoungDepth + 1}

Init ==
    \E n \in 1..Min(MaxChunk, RoomInitialSyncLimit),
       order \in {"chronological", "newest-first"},
       oldest \in OldestIDs :
        LET resp == RoomInitialSync(n, order)
            r == NewRoom(resp)
        IN  /\ eventList = r.eventList
            /\ backPaginationToken = r.backPaginationToken
            /\ forwardPaginationToken = r.forwardPaginationToken
            /\ latestRoomState = r.latestRoomState
            /\ initialSync = [Start |-> resp.Start, End |-> resp.End, order |-> order]
            /\ oldestID = oldest
            /\ latestBackCursor = resp.Start
            /\ latestForwardCursor = resp.End
            /\ call = NoCall
            /\ pc = [p \in Procs |-> "idle"]
            /\ local = [p \in Procs |-> NoLocal]

\* The anchors a request may name: none, one of the newest cached events,
\* and the event just past the older edge of the cache.
Anchors ==
    {NoAnchor}
        \cup {eventList[i].ID : i \in 1..Min(MaxAnchor, Len(eventList))}
        \cup {id \in {backPaginationToken - 1} : id >= 1}
Offsets == (-MaxOffset)..MaxOffset
PageSizes == (-1)..MaxPageSize

Last(seq, default) == IF seq = <<>> THEN default ELSE seq[Len(seq)]

\* One whole GetEventPage call on the room, and the record of it.
GetEventPageCall(anchor, offset, pageSize, repeat) ==
    \E reply1 \in IF anchorBackpaginate THEN Replies ELSE {"error"},
       reply2 \in IF offset >= 0 THEN Replies ELSE {"error"} :
    \E res \in {GetEventPage(Room, anchor, offset, pageSize, reply1, reply2)} :
        /\ eventList' = res.room.eventList
        /\ backPaginationToken' = res.room.backPaginationToken
        /\ forwardPaginationToken' = res.room.forwardPaginationToken
        /\ latestRoomState' = res.room.latestRoomState
        /\ latestBackCursor' = Last(res.cursors, latestBackCursor)
        /\ call' = [NoCall EXCEPT
                        !.op = "GetEventPage", !.anchor = anchor, !.offset = offset,
                        !.pageSize = pageSize, !.events = res.events, !.err = res.err,
                        !.panicked = res.panicked, !.anchorIndex = res.anchorIndex,
                        !.preFound = \E i \in 1..Len(eventList) : eventList[i].ID = anchor,
                        !.preLen = Len(eventList), !.fetched = res.fetched,
                        !.fetchErr = res.fetchErr, !.numNew = res.numNew,
                        !.repeat = repeat,
                        !.prior = IF call.op = "delivered"
                                  THEN <<[preLen |-> call.preLen,
                                          anchorIndex |-> call.anchorIndex,
                                          prepended |-> call.prepended]>>
                                  ELSE <<>>]
        /\ UNCHANGED <<initialSync, oldestID, latestForwardCursor, pc, local>>

\* A caller asks for a page.
DoGetEventPage ==
    /\ call.op = "none"
    /\ \E anchor \in Anchors, offset \in Offsets, pageSize \in PageSizes :
           GetEventPageCall(anchor, offset, pageSize, FALSE)

\* The caller asks for the same page again, right after the first answer.
DoGetEventPageAgain ==
    /\ call.op = "GetEventPage"
    /\ GetEventPageCall(call.anchor, call.offset, call.pageSize, TRUE)

\* Live delivery: the sync loop hands the next m events and their cursor to
\* concatForwardPagination.
DoConcatForwardPagination ==
    /\ call.op = "none"
    /\ \E m \in 1..MaxNew :
       \E from \in {forwardPaginationToken} :
       \E r \in {concatForwardPagination(Room, Chronological(from, from + m - 1), from + m)} :
           /\ from + m - 1 <= HistInit + MaxNew
           /\ eventList' = r.eventList
           /\ backPaginationToken' = r.backPaginationToken
           /\ forwardPaginationToken' = r.forwardPaginationToken
           /\ latestRoomState' = r.latestRoomState
           /\ latestForwardCursor' = from + m
           /\ call' = [NoCall EXCEPT !.op = "concatForwardPagination",
                                     !.preLen = Len(eventList),
                                     !.batch = Chronological(from, from + m - 1),
                                     !.prepended = Len(r.eventList) - Len(eventList)]
           /\ UNCHANGED <<initialSync, oldestID, latestBackCursor, pc, local>>

\* The operation has returned and its caller has taken the result.
Return ==
    /\ call.op # "none"
    /\ call' = NoCall
    /\ UNCHANGED <<eventList, backPaginationToken, forwardPaginationToken,
                   latestRoomState, initialSync, oldestID, latestBackCursor,
                   latestForwardCursor, pc, local>>

Next == DoGetEventPage \/ DoGetEventPageAgain \/ DoConcatForwardPagination \/ Return

Spec == Init /\ [][Next]_vars

\* ------------------------------------------------- anchor resolution alone
\* findEventIndex called on its own, with either value of its flag.  The
\* anchors reach past the older edge of the cache: events the server holds,
\* redactions it holds (never cached) and IDs before the start of history.
FindAnchors ==
    Anchors \cup {id \in {backPaginationToken - k : k \in 1..(MaxAnchor + 1)} : id >= 1}

DoFindEventIndex ==
    /\ call.op = "none"
    /\ \E anchor \in FindAnchors, backpaginate \in BOOLEAN, reply \in Replies :
       \E f \in {findEventIndex(Room, anchor, backpaginate, reply)} :
           /\ eventList' = f.room.eventList
           /\ backPaginationToken' = f.room.backPaginationToken
           /\ forwardPaginationToken' = f.room.forwardPaginationToken
           /\ latestRoomState' = f.room.latestRoomState
           /\ latestBackCursor' = Last(f.cursors, latestBackCursor)
           /\ call' = [NoCall EXCEPT
                           !.op = "findEventIndex", !.anchor = anchor,
                           !.anchorIndex = f.index, !.found = f.found,
                           !.preFound = \E i \in 1..Len(eventList) : eventList[i].ID = anchor,
                           !.preLen = Len(eventList), !.fetched = f.fetched,
                           !.numNew = Len(f.room.eventList) - Len(eventList),
                           !.scans = f.scans, !.backpaginate = backpaginate]
           /\ UNCHANGED <<initialSync, oldestID, latestForwardCursor, pc, local>>

NextResolve == DoFindEventIndex \/ DoConcatForwardPagination \/ Return

SpecResolve == Init /\ [][NextResolve]_vars

\* ------------------------------------------ a page, a live batch, the page
\* A live batch arrives right after a page was served; the record keeps the
\* page's arguments and answer and notes the batch and the number of events
\* it put in front.
DoDeliverAfterPage ==
    /\ call.op = "GetEventPage"
    /\ ~call.repeat
    /\ \E m \in 1..MaxNew :
       \E from \in {forwardPaginationToken} :
       \E r \in {concatForwardPagination(Room, Chronological(from, from + m - 1), from + m)} :
           /\ from + m - 1 <= HistInit + MaxNew
           /\ eventList' = r.eventList
           /\ backPaginationToken' = r.backPaginationToken
           /\ forwardPaginationToken' = r.forwardPaginationToken
           /\ latestRoomState' = r.latestRoomState
           /\ latestForwardCursor' = from + m
           /\ call' = [call EXCEPT !.op = "delivered",
                                   !.batch = Chronological(from, from + m - 1),
                                   !.prepended = Len(r.eventList) - Len(eventList)]
           /\ UNCHANGED <<initialSync, oldestID, latestBackCursor, pc, local>>

\* The caller asks for the same page again after the live batch.
DoGetEventPageAfterDelivery ==
    /\ call.op = "delivered"
    /\ GetEventPageCall(call.anchor, call.offset, call.pageSize, TRUE)

NextLive == DoGetEventPage \/ DoDeliverAfterPage \/ DoGetEventPageAfterDelivery \/ Return

SpecLive == Init /\ [][NextLive]_vars

\* ------------------------------------------------- concurrent callers
\* Room has no lock: GetEventPage runs on the caller's goroutine and the sync
\* loop's concatForwardPagination on another.  Each action below is one
\* access of a call to the room's fields; the fetch of backpaginateRoom is a
\* blocking round trip between reading the cursor and appending the chunk.
ConcOffsets == {-1, 0}
ConcPageSizes == {1}
ConcAnchors == {NoAnchor} \cup {eventList[i].ID : i \in {1} \cap DOMAIN eventList}

\* The callers that have resolved an index or read the length and have not
\* sliced yet.
InWindow(p) == pc[p] \in {"range", "request", "await", "slice"}

\* The locals of all callers after caller p set its own to `mine` and the
\* timeline changed under the others (when `changed`).
Disturb(p, mine, changed) ==
    [q \in Procs |->
        IF q = p THEN mine
        ELSE IF changed /\ InWindow(q) THEN [local[q] EXCEPT !.disturbed = TRUE]
        ELSE local[q]]

ConcUnchangedRoom ==
    UNCHANGED <<eventList, backPaginationToken, forwardPaginationToken,
                latestRoomState, initialSync, oldestID, latestBackCursor,
                latestForwardCursor, call>>

ConcStart(p) ==
    /\ pc[p] = "idle"
    /\ \E anchor \in ConcAnchors, offset \in ConcOffsets, pageSize \in ConcPageSizes :
           local' = [local EXCEPT ![p] = [NoLocal EXCEPT !.anchor = anchor,
                                                         !.offset = offset,
                                                         !.pageSize = pageSize]]
    /\ pc' = [pc EXCEPT ![p] = "find"]
    /\ ConcUnchangedRoom

\* GetEventPage resolves the anchor (lines 132-139).
ConcFindEventIndex(p) ==
    /\ pc[p] = "find"
    /\ \E f \in {IF local[p].anchor # NoAnchor
                  THEN findEventIndex(Room, local[p].anchor, FALSE, "error")
                  ELSE [index |-> 0, found |-> TRUE]} :
           IF f.found
           THEN /\ local' = [local EXCEPT ![p].anchorIndex = f.index]
                /\ pc' = [pc EXCEPT ![p] = "range"]
           ELSE /\ local' = [local EXCEPT ![p].err = TRUE]
                /\ pc' = [pc EXCEPT ![p] = "done"]
    /\ ConcUnchangedRoom

\* The range helper reads len(r.eventList) and decides on a fetch
\* (lines 104-109 and 121).
ConcReadLength(p) ==
    /\ pc[p] = "range"
    /\ LET length == Len(eventList)
           delta == backwardDelta(local[p].anchorIndex, local[p].offset, local[p].pageSize)
       IN  IF local[p].offset >= 0 /\ backwardNeedsFetch(delta, length)
           THEN /\ local' = [local EXCEPT ![p].length = length,
                                          ![p].amount = delta - length]
                /\ pc' = [pc EXCEPT ![p] = "request"]
           ELSE /\ local' = [local EXCEPT ![p].length = length]
                /\ pc' = [pc EXCEPT ![p] = "slice"]
    /\ ConcUnchangedRoom

\* backpaginateRoom reads the older-edge cursor and sends the request.
ConcBackpaginateRequest(p) ==
    /\ pc[p] = "request"
    /\ local' = [local EXCEPT ![p].from = GetTokens(Room)[1]]
    /\ pc' = [pc EXCEPT ![p] = "await"]
    /\ ConcUnchangedRoom

\* The answer arrives: on success concatBackpagination appends the chunk and
\* sets the cursor, and the caller adds numNew to its length (lines 111-113).
ConcBackpaginateResponse(p) ==
    /\ pc[p] = "await"
    /\ \E reply \in Replies :
           IF reply = "error"
           THEN /\ local' = local
                /\ UNCHANGED <<eventList, backPaginationToken, forwardPaginationToken,
                               latestBackCursor>>
           ELSE \E resp \in {Messages(local[p].from, local[p].amount)} :
                \E r \in {concatBackpagination(Room, resp.Chunk, resp.End)} :
                \E numNew \in {Len(r.eventList) - Len(eventList)} :
                    /\ eventList' = r.eventList
                    /\ backPaginationToken' = r.backPaginationToken
                    /\ forwardPaginationToken' = r.forwardPaginationToken
                    /\ latestBackCursor' = resp.End
                    /\ local' = Disturb(p,
                                   [local[p] EXCEPT !.length =
                                        backwardLength(local[p].length, numNew, FALSE)],
                                   numNew > 0)
    /\ pc' = [pc EXCEPT ![p] = "slice"]
    /\ UNCHANGED <<latestRoomState, initialSync, oldestID, latestForwardCursor, call>>

\* The range helper slices r.eventList by the indices it computed from its
\* length (lines 116-117 and 122-124).  When another goroutine wrote the
\* slice in between, the read races with that write: it may see the list as
\* it now is, or a torn slice header.
ConcSlice(p) ==
    /\ pc[p] = "slice"
    /\ LET a == local[p].anchorIndex
           length == local[p].length
           number == local[p].pageSize
           startIndex == backwardStart(a, local[p].offset, length)
           topIndex == forwardTop(a, -local[p].offset, number, length)
           s == IF local[p].offset >= 0
                THEN Slice(eventList, startIndex, backwardEnd(startIndex, number, length))
                ELSE Slice(eventList, forwardBottom(topIndex, number), topIndex)
       IN  \E torn \in IF local[p].disturbed THEN BOOLEAN ELSE {FALSE} :
               local' = [local EXCEPT ![p].events = IF torn THEN <<>> ELSE s.events,
                                      ![p].panicked = ~torn /\ s.panicked,
                                      ![p].torn = torn]
    /\ pc' = [pc EXCEPT ![p] = "done"]
    /\ ConcUnchangedRoom

\* The sync loop delivers a live batch while callers are inside GetEventPage.
ConcForwardPagination ==
    \E m \in 1..MaxNew :
    \E from \in {forwardPaginationToken} :
    \E r \in {concatForwardPagination(Room, Chronological(from, from + m - 1), from + m)} :
        /\ from + m - 1 <= HistInit + MaxNew
        /\ eventList' = r.eventList
        /\ backPaginationToken' = r.backPaginationToken
        /\ forwardPaginationToken' = r.forwardPaginationToken
        /\ latestRoomState' = r.latestRoomState
        /\ latestForwardCursor' = from + m
        /\ local' = Disturb(0, NoLocal, r.eventList # eventList)
        /\ UNCHANGED <<initialSync, oldestID, latestBackCursor, call, pc>>

NextConc ==
    \/ \E p \in Procs :
           \/ ConcStart(p)
           \/ ConcFindEventIndex(p)
           \/ ConcReadLength(p)
           \/ ConcBackpaginateRequest(p)
           \/ ConcBackpaginateResponse(p)
           \/ ConcSlice(p)
    \/ ConcForwardPagination

SpecConc == Init /\ [][NextConc]_vars

\* ------------------------------------------------------------- properties
IsPage == call.op = "GetEventPage"
CachedIDs(list) == {list[i].ID : i \in 1..Len(list)}

\* The index a resolved anchor stands for: 0 for the empty anchor, else the
\* position (from 0) of the first event carrying that ID.
IndexOfAnchor(list, anchor) ==
    IF anchor = NoAnchor THEN 0
    ELSE (CHOOSE i \in 1..Len(list) :
              list[i].ID = anchor /\ \A j \in 1..(i - 1) : list[j].ID # anchor) - 1

\* The events at indices [low, high) of list.
Indices(list, low, high) == SubSeq(list, low + 1, high)

\* C1: a GetEventPage call with offset >= 0 and pageSize >= 0 that returns
\* without error yields at most pageSize events, and they are a contiguous
\* run of the timeline as it stands after the call, in the same order.
C1_PageIsContiguousRun ==
    (IsPage /\ call.offset >= 0 /\ call.pageSize >= 0 /\ ~call.err /\ ~call.panicked)
        => /\ Len(call.events) <= call.pageSize
           /\ \E i \in 0..(Len(eventList) - Len(call.events)) :
                  call.events = Indices(eventList, i, i + Len(call.events))

C1_Witness ==
    /\ IsPage /\ ~call.err /\ ~call.panicked
    /\ call.anchor # NoAnchor /\ call.anchorIndex >= 1
    /\ call.offset >= 1 /\ call.pageSize >= 2
    /\ Len(call.events) = call.pageSize
    /\ call.numNew > 0
    /\ Len(eventList) > call.anchorIndex + call.offset + call.pageSize

\* C2 as claimed: GetEventPage reports "Could not find event" only after one
\* attempt to extend the timeline backward by 100 events.
C2_ErrorOnlyAfterExtension ==
    (IsPage /\ call.err) => call.fetched = <<findEventIndexBackpaginateBy>>

\* C2, amended: for a non-empty anchor GetEventPage reports "Could not find
\* event" exactly when the anchor is not in the cached timeline at the time
\* of the call, and then it has made no backward fetch, returns no events
\* and leaves the timeline as long as it was.
C2_ErrorWithoutExtension ==
    (IsPage /\ call.anchor # NoAnchor)
        => /\ call.err <=> ~call.preFound
           /\ call.err => /\ call.fetched = <<>>
                          /\ call.events = <<>>
                          /\ Len(eventList) = call.preLen

\* The anchor is not cached, yet the server holds that event right past the
\* older edge: one extension would have surfaced it.
C2_Witness ==
    /\ IsPage /\ call.err /\ call.anchor # NoAnchor
    /\ call.anchor = backPaginationToken - 1
    /\ call.anchor >= oldestID
    /\ ~IsRedactionID(call.anchor)

\* C3 as claimed: a call with offset >= 0 made when the timeline already
\* holds at least anchorIndex + offset + pageSize + 32 events makes no
\* backward fetch.
C3_NoRedundantFetch ==
    (IsPage /\ call.offset >= 0 /\ ~call.err
        /\ call.pageSize >= 0 /\ ~call.panicked
        /\ call.preLen >= call.anchorIndex + call.offset + call.pageSize
                              + overcompensateBackpaginationBy)
        => call.fetched = <<>>

\* C4: when the backward fetch of a call (offset >= 0, pageSize >= 0) fails,
\* the call returns a nil error, the timeline and both cursors are as before
\* the call, the page is [min(a+offset, L), min(a+offset+pageSize, L)) of
\* the timeline of length L, and the fetch was made once.
C4_FailedFetchDegrades ==
    [][(call'.op = "GetEventPage" /\ call'.fetchErr /\ call'.pageSize >= 0)
        => /\ ~call'.err /\ ~call'.panicked
           /\ UNCHANGED <<eventList, backPaginationToken, forwardPaginationToken>>
           /\ Len(call'.fetched) = 1
           /\ LET L == Len(eventList)
                  a == IndexOfAnchor(eventList, call'.anchor)
                  from == a + call'.offset
              IN  call'.events =
                      Indices(eventList, Min(from, L), Min(from + call'.pageSize, L))]_vars

C4_Witness ==
    /\ IsPage /\ call.fetchErr
    /\ call.events # <<>>
    /\ Len(call.events) < call.pageSize

\* C5: when the backward fetch of a call (offset >= 0, pageSize >= 0)
\* succeeds and appends k events, 0 <= k <= the amount asked for, the call
\* returns a nil error and exactly the events at
\* [min(a+offset, L+k), min(a+offset+pageSize, L+k)) of the extended
\* timeline, L being the length before the call.
C5_PageAfterExtension ==
    (IsPage /\ call.offset >= 0 /\ call.pageSize >= 0 /\ ~call.err
        /\ call.fetched # <<>> /\ ~call.fetchErr)
        => LET L == call.preLen
               k == call.numNew
               a == IndexOfAnchor(eventList, call.anchor)
               from == a + call.offset
           IN  /\ ~call.panicked
               /\ k >= 0 /\ k <= call.fetched[Len(call.fetched)]
               /\ Len(eventList) = L + k
               /\ call.events =
                      Indices(eventList, Min(from, L + k), Min(from + call.pageSize, L + k))

\* The fetch returned some events but fewer than asked for, and the page is
\* cut short by the end of the extended timeline.
C5_Witness ==
    /\ IsPage /\ ~call.err /\ call.fetched # <<>> /\ ~call.fetchErr
    /\ call.numNew > 0 /\ call.numNew < call.fetched[1]
    /\ call.events # <<>>
    /\ Len(call.events) < call.pageSize

SameAnswer ==
    /\ call'.events = call.events
    /\ call'.err = call.err
    /\ call'.panicked = call.panicked

NewestFirstOrdered(list) ==
    \A i, j \in 1..Len(list) : i < j => list[i].ID > list[j].ID

\* C9 as claimed: with the initial chunk delivered newest-first, the
\* timeline is ordered newest-first in every reachable state.
C9_NewestFirstFromNewestFirstChunk ==
    initialSync.order = "newest-first" => NewestFirstOrdered(eventList)

\* C9, amended: with the initial chunk delivered in chronological order
\* (oldest first, which NewRoom reverses), the timeline is ordered
\* newest-first in every reachable state.
C9_NewestFirstFromChronologicalChunk ==
    initialSync.order = "chronological" => NewestFirstOrdered(eventList)

\* Two events of the initial chunk are cached, with fetched older events
\* after them and live events before them.
C9_Witness ==
    /\ initialSync.order = "chronological"
    /\ Cardinality({id \in CachedIDs(eventList) :
                        id >= initialSync.Start /\ id < initialSync.End}) >= 2
    /\ \E id \in CachedIDs(eventList) : id < initialSync.Start
    /\ \E id \in CachedIDs(eventList) : id >= initialSync.End

\* The events lo..hi that pass `Keep`, newest first.
KeptNewestFirst(lo, hi, Keep(_)) == SelectSeq(NewestFirst(lo, hi), Keep)
KeptChronological(lo, hi, Keep(_)) == SelectSeq(Chronological(lo, hi), Keep)
IsRedactionEvent(e) == e.Type = Redaction
IsTimelineEvent(e) == e.Type # Redaction

\* C10: the older-edge cursor is the one the latest successful backward fetch
\* returned (the initial start cursor before any), the newer-edge cursor is
\* the one supplied with the latest live batch (the initial end cursor before
\* any), and the cached sequence is exactly what the batches between those
\* cursors put there: the live events down to the initial end cursor, what
\* NewRoom kept of the initial chunk, and the fetched events from the
\* initial start cursor down to the older-edge cursor.
C10_CursorsDescribeEdges ==
    /\ GetTokens(Room) = <<latestBackCursor, latestForwardCursor>>
    /\ eventList =
           KeptNewestFirst(initialSync.End, forwardPaginationToken - 1, IsTimelineEvent)
        \o (IF initialSync.order = "chronological"
            THEN KeptNewestFirst(initialSync.Start, initialSync.End - 1, IsRedactionEvent)
            ELSE KeptChronological(initialSync.Start, initialSync.End - 1, IsRedactionEvent))
        \o KeptNewestFirst(backPaginationToken, initialSync.Start - 1, IsTimelineEvent)

\* Both edges have moved, and the last backward fetch failed.
C10_Witness ==
    /\ IsPage /\ call.fetchErr
    /\ backPaginationToken < initialSync.Start
    /\ forwardPaginationToken > initialSync.End

\* C7: no caller slices the timeline after another goroutine changed it
\* between the caller's reading of the anchor index or length and its slice.
C7_ReadersExcluded ==
    \A p \in Procs : InWindow(p) => ~local[p].disturbed

NoEventCachedTwice ==
    \A i, j \in 1..Len(eventList) : eventList[i].ID = eventList[j].ID => i = j

\* C8: at most one backward fetch is outstanding at any time, and no fetched
\* batch is appended twice (no event is cached twice).
C8_OneOutstandingFetch ==
    /\ Cardinality({p \in Procs : pc[p] = "await"}) <= 1
    /\ NoEventCachedTwice

\* C11 as claimed: no cached event is a redaction, and every non-redaction
\* event of the initial chunk is cached.
C11_NoRedactionRows ==
    /\ \A i \in 1..Len(eventList) : eventList[i].Type # Redaction
    /\ \A id \in initialSync.Start..(initialSync.End - 1) :
           ~IsRedactionID(id) => id \in CachedIDs(eventList)

\* C12: a GetEventPage call whose non-empty anchor is not in the timeline
\* returns "Could not find event" with no events, whatever offset and
\* pageSize are, and an error never comes with events.
C12_UnresolvedAnchorYieldsNoPage ==
    /\ (IsPage /\ call.anchor # NoAnchor /\ call.anchor \notin CachedIDs(eventList))
           => (call.err /\ call.events = <<>> /\ ~call.panicked)
    /\ (IsPage /\ call.err) => call.events = <<>>

\* The anchor is unknown while index 0 would have given a full page.
C12_Witness ==
    /\ IsPage /\ call.err /\ call.anchor # NoAnchor
    /\ call.offset # 0 /\ call.pageSize >= 2
    /\ Len(eventList) >= call.pageSize

\* C13: one GetEventPage call makes at most one backward fetch, anchor
\* resolution and range computation counted together, and none when
\* offset < 0.
C13_AtMostOneFetch ==
    IsPage => /\ Len(call.fetched) <= 1
              /\ call.offset < 0 => (call.fetched = <<>> /\ Len(eventList) = call.preLen)

\* A call with a cached anchor past index 0 that fetched and got events.
C13_Witness ==
    /\ IsPage /\ call.anchor # NoAnchor /\ call.anchorIndex >= 1
    /\ Len(call.fetched) = 1 /\ call.numNew > 0

\* C14: a GetEventPage call with offset < 0 and pageSize >= 0 whose anchor
\* resolves to index a on a timeline of length L returns exactly the events
\* at [max(top - pageSize, 0), top), top = clamp(a + pageSize - (-offset), 0, L),
\* at most pageSize of them, with a nil error and the timeline untouched.
C14_ForwardPage ==
    (IsPage /\ call.offset < 0 /\ call.pageSize >= 0 /\ ~call.err)
        => LET L == call.preLen
               a == IndexOfAnchor(eventList, call.anchor)
               x == a + call.pageSize - (-call.offset)
               top == IF x < 0 THEN 0 ELSE IF x > L THEN L ELSE x
               bottom == IF top - call.pageSize > 0 THEN top - call.pageSize ELSE 0
           IN  /\ ~call.panicked
               /\ Len(eventList) = L
               /\ call.events = Indices(eventList, bottom, top)
               /\ Len(call.events) <= call.pageSize

\* The page is cut short by index 0.
C14_Witness ==
    /\ IsPage /\ call.offset < 0 /\ ~call.err
    /\ call.anchor # NoAnchor /\ call.anchorIndex >= 1
    /\ call.events # <<>>
    /\ Len(call.events) < call.pageSize

\* C15: one findEventIndex call ends after at most two passes over the
\* timeline and at most one backpaginateRoom(r, 100): none when the flag is
\* false or the first pass finds the anchor, and a second pass only after an
\* extension that added events, which never extends again.
C15_ResolutionBounded ==
    call.op = "findEventIndex"
        => /\ call.scans \in {1, 2}
           /\ Len(call.fetched) <= 1
           /\ \A i \in DOMAIN call.fetched : call.fetched[i] = findEventIndexBackpaginateBy
           /\ (~call.backpaginate \/ call.preFound) => (call.fetched = <<>> /\ call.scans = 1)
           /\ call.scans = 2 <=> (call.fetched # <<>> /\ call.numNew > 0)

\* The extension added events, the second pass still did not find the
\* anchor, and the resolution stopped there.
C15_Witness ==
    /\ call.op = "findEventIndex" /\ call.backpaginate
    /\ call.scans = 2 /\ ~call.found
    /\ call.numNew > 0
    /\ call.anchor >= oldestID

Reversed(seq) == [i \in 1..Len(seq) |-> seq[Len(seq) - i + 1]]

\* C16: after concatForwardPagination the surviving (non-redaction) events
\* of the batch stand in front of the previous sequence in reverse arrival
\* order, so index 0 holds the last surviving event of the batch; a batch of
\* redactions only leaves the sequence as it was; the newer-edge cursor is
\* the supplied one.
C16_ForwardBatchAtFront ==
    [][call'.op = "concatForwardPagination"
        => LET batch == call'.batch
               kept == SelectSeq(batch, IsTimelineEvent)
           IN  /\ eventList' = Reversed(kept) \o eventList
               /\ kept # <<>> => eventList'[1] = kept[Len(kept)]
               /\ kept = <<>> => eventList' = eventList
               /\ forwardPaginationToken' = latestForwardCursor'
               /\ forwardPaginationToken' = batch[Len(batch)].ID + 1]_vars

\* A batch of three with a redaction in the middle.
C16_Witness ==
    /\ call.op = "concatForwardPagination"
    /\ Len(call.batch) = 3 /\ call.prepended = 2
    /\ call.batch[2].Type = Redaction
    /\ call.preLen > 0

AppliedCount(id) ==
    Cardinality({i \in DOMAIN latestRoomState : latestRoomState[i].ID = id})
StateEventIDs == {StateEvents[i].ID : i \in DOMAIN StateEvents}

\* C17 as claimed: UpdateOnEvent has been called exactly once for every
\* non-redaction event in the timeline, never for a redaction, and with
\* isInitial = TRUE exactly for the state events of the initial sync.
C17_EveryRetainedEventFolded ==
    /\ \A i \in 1..Len(eventList) :
           eventList[i].Type # Redaction => AppliedCount(eventList[i].ID) = 1
    /\ \A i \in DOMAIN latestRoomState :
           /\ latestRoomState[i].isInitial <=> latestRoomState[i].ID \in StateEventIDs
           /\ latestRoomState[i].ID \notin StateEventIDs
                  => ~IsRedactionID(latestRoomState[i].ID)

\* C17, amended: the calls made on the reducer are one UpdateOnEvent(e, true)
\* per state event of the initial sync, then one UpdateOnEvent(e, false) per
\* non-redaction event delivered live, in arrival order; the events of the
\* initial chunk and those appended by a backward fetch are not folded.
C17_OnlyLiveEventsFolded ==
    latestRoomState =
        [i \in DOMAIN StateEvents |-> [ID |-> StateEvents[i].ID, isInitial |-> TRUE]]
     \o [i \in 1..Len(KeptChronological(initialSync.End, forwardPaginationToken - 1,
                                         IsTimelineEvent)) |->
            [ID |-> KeptChronological(initialSync.End, forwardPaginationToken - 1,
                                      IsTimelineEvent)[i].ID,
             isInitial |-> FALSE]]

\* An older message was fetched into the timeline and never folded, while
\* live messages were.
C17_Witness ==
    /\ \E i \in 1..Len(eventList) :
           /\ eventList[i].Type # Redaction
           /\ eventList[i].ID < initialSync.Start
           /\ AppliedCount(eventList[i].ID) = 0
    /\ \E i \in 1..Len(eventList) :
           /\ eventList[i].ID >= initialSync.End
           /\ AppliedCount(eventList[i].ID) = 1
    /\ forwardPaginationToken > HistInit + 2

IsPrefix(a, b) == Len(a) <= Len(b) /\ SubSeq(b, 1, Len(a)) = a
IsSuffix(a, b) == Len(a) <= Len(b) /\ SubSeq(b, Len(b) - Len(a) + 1, Len(b)) = a

\* C18: no step shortens the timeline.  A GetEventPage call keeps every
\* cached event at its index and the newer-edge cursor as it was, and
\* changes the sequence and the older-edge cursor only when its backward
\* fetch succeeds, by the events that fetch appended.  A live batch keeps the
\* cached events as an unchanged suffix and the older-edge cursor as it was.
C18_GrowsOnlyAtEnds ==
    [][/\ Len(eventList') >= Len(eventList)
       /\ call'.op = "GetEventPage"
              => /\ IsPrefix(eventList, eventList')
                 /\ forwardPaginationToken' = forwardPaginationToken
                 /\ Len(eventList') = Len(eventList) + call'.numNew
                 /\ (call'.fetched = <<>> \/ call'.fetchErr)
                        => UNCHANGED <<eventList, backPaginationToken>>
       /\ call'.op = "concatForwardPagination"
              => /\ IsSuffix(eventList, eventList')
                 /\ backPaginationToken' = backPaginationToken
       /\ call'.op \notin {"GetEventPage", "concatForwardPagination"}
              => UNCHANGED eventList]_vars

\* Live events in front, the page call appended older ones behind.
C18_Witness ==
    /\ IsPage /\ call.numNew > 0 /\ call.preLen > 0
    /\ forwardPaginationToken > initialSync.End
    /\ eventList[1].ID >= initialSync.End

\* C19 as claimed: no GetEventPage call slices r.eventList out of range.
C19_NeverOutOfRange ==
    IsPage => ~call.panicked

\* C20: a page with a cached non-empty anchor, offset >= 0 and
\* anchorIndex + offset + pageSize <= length, asked for again after a live
\* batch, gives the same events and error, and the anchor's index has grown
\* by the number of events the batch put in front.
C20_StableUnderLiveDelivery ==
    [][(call.op = "delivered" /\ call'.op = "GetEventPage"
            /\ call.anchor # NoAnchor /\ call.preFound /\ call.offset >= 0
            /\ call.anchorIndex + call.offset + call.pageSize <= call.preLen)
        => /\ SameAnswer
           /\ ~call'.err
           /\ call'.anchorIndex = call.anchorIndex + call.prepended]_vars

\* The first call had its whole page cached; the batch put two events in
\* front, and the second call served the full page from behind them.
C20_Witness ==
    /\ IsPage /\ call.repeat /\ ~call.err
    /\ call.anchor # NoAnchor
    /\ call.offset >= 1 /\ call.pageSize >= 1
    /\ Len(call.events) = call.pageSize
    /\ call.prior # <<>>
    /\ call.prior[1].prepended >= 2
    /\ call.prior[1].anchorIndex + call.offset + call.pageSize <= call.prior[1].preLen
    /\ call.anchorIndex = call.prior[1].anchorIndex + call.prior[1].prepended

====
